---- MODULE Spec2Model ----
(***************************************************************************)
(* A model of get_embedded.py: the chunkers split_course_markdown,         *)
(* chunk_discourse_file and split_large_chunk, the embedding client        *)
(* get_embedding with its retry loop and its recursion on oversized        *)
(* texts, and the main loop that accumulates the embedding records.        *)
(*                                                                         *)
(* A text is a sequence of items.  An item is a word, or one of the        *)
(* separators the regular expressions and str.split of the code look for:  *)
(*   "w"     a run of non-blank characters (tok: its token count),         *)
(*   "pb"    the paragraph break "\n\n" (one token of the tokenizer),      *)
(*   "hm"    a heading marker "#+\s+" at the start of a line,              *)
(*   "delim" the post delimiter "---\n**",                                 *)
(*   "hdr"   a post header "<user>** posted on <date>:" (it matches the    *)
(*           header pattern when a "pb" follows it).                       *)
(* Adjacent words are separated by one blank, which the tokenizer merges   *)
(* into the following word's first token.                                  *)
(***************************************************************************)
EXTENDS Integers, Sequences, FiniteSets, TLC

VARIABLES
    input,          \* SpecChunk: [fn, text], the function under check and its argument
    chunks,         \* the value returned by the chunker (SpecChunk), `chunks` of the main loop
    stack,          \* the active get_embedding calls, outermost first
    ret,            \* the value returned by the outermost get_embedding call
    remoteLog,      \* history: the calls of client.embeddings.create of the current outermost call
    files,          \* the corpus: what rglob found, in order
    pc,             \* position of the main loop
    fileIdx,        \* index of file_path in files
    chunkIdx,       \* i + 1 of the enumerate(chunks) loop
    all_chunks,
    all_embeddings,
    metas,
    history         \* history: per chunk handed to get_embedding, [file, i, chunk, result]

vars == <<input, chunks, stack, ret, remoteLog, files, pc, fileIdx, chunkIdx,
          all_chunks, all_embeddings, metas, history>>

chunkVars == <<input, chunks>>
embedVars == <<stack, ret, remoteLog>>
mainVars == <<files, pc, fileIdx, chunkIdx, all_chunks, all_embeddings, metas, history>>

----------------------------------------------------------------------------
(* Configuration *)

CHUNK_SIZE == 200
OVERLAP == 50
SUBCHUNK_TOKENS == 150
HardCeiling == 8192
max_retries == 3

(* Bounds of the model *)
MaxUnits == 6          \* paragraphs and headings of a generated course file
MaxDiscItems == 5      \* items of a generated discourse file
MaxWords == 301        \* words of a text handed to split_large_chunk
MaxEmbedWords == 155   \* words of a text handed to get_embedding
MaxFiles == 2          \* files of the corpus
RecursionLimit == 3    \* nested get_embedding calls the interpreter allows

Min(a, b) == IF a < b THEN a ELSE b

----------------------------------------------------------------------------
(* Texts *)

Word(i, t) == [k |-> "w", tok |-> t, id |-> i]
PB == [k |-> "pb", tok |-> 1, id |-> 0]
HM == [k |-> "hm", tok |-> 1, id |-> 0]
DELIM == [k |-> "delim", tok |-> 2, id |-> 0]
Hdr(i) == [k |-> "hdr", tok |-> 8, id |-> i]

\* len(enc.encode(text)): the sum of the items' token counts (summed by
\* halves, which keeps the evaluation shallow on long texts)
RECURSIVE Tokens(_)
Tokens(text) ==
    IF text = <<>> THEN 0
    ELSE IF Len(text) = 1 THEN text[1].tok
         ELSE LET mid == Len(text) \div 2
              IN  Tokens(SubSeq(text, 1, mid)) + Tokens(SubSeq(text, mid + 1, Len(text)))

IsSpace(item) == item.k = "pb"

\* str.strip()
RECURSIVE LStrip(_)
LStrip(text) ==
    IF text # <<>> /\ IsSpace(Head(text)) THEN LStrip(Tail(text)) ELSE text

RECURSIVE RStrip(_)
RStrip(text) ==
    IF text # <<>> /\ IsSpace(text[Len(text)])
    THEN RStrip(SubSeq(text, 1, Len(text) - 1))
    ELSE text

Strip(text) == RStrip(LStrip(text))

\* re.split / str.split on one separator item: the pieces between its
\* occurrences, empty pieces included (n occurrences give n + 1 pieces)
SplitOn(text, sep) ==
    LET at == SelectSeq([i \in 1..Len(text) |-> i], LAMBDA i : text[i].k = sep)
        cuts == <<0>> \o at \o <<Len(text) + 1>>
    IN  [j \in 1..(Len(at) + 1) |-> SubSeq(text, cuts[j] + 1, cuts[j + 1] - 1)]

\* sep.join(parts)
RECURSIVE Join(_, _)
Join(parts, sep) ==
    IF parts = <<>> THEN <<>>
    ELSE IF Len(parts) = 1 THEN parts[1]
         ELSE parts[1] \o <<sep>> \o Join(Tail(parts), sep)

\* str.split(): the words of a text
Words(text) == SelectSeq(text, LAMBDA item : ~IsSpace(item))

----------------------------------------------------------------------------
(* split_large_chunk *)

\* range(0, n, step) as the sequence of its values
RECURSIVE Range(_, _, _)
Range(i, n, step) ==
    IF i >= n THEN <<>> ELSE <<i>> \o Range(i + step, n, step)

Stride == SUBCHUNK_TOKENS - OVERLAP

\* split_large_chunk with range(0, len(words), max_tokens): no overlap
split_large_chunk_NoOverlap(text) ==
    LET words == Words(text)
        starts == Range(0, Len(words), SUBCHUNK_TOKENS)
        sub(i) == SubSeq(words, i + 1, Min(i + SUBCHUNK_TOKENS, Len(words)))
    IN  [j \in 1..Len(starts) |-> sub(starts[j])]

split_large_chunk(text) ==
    LET words == Words(text)
        starts == Range(0, Len(words), Stride)
        sub(i) == SubSeq(words, i + 1, Min(i + SUBCHUNK_TOKENS, Len(words)))
        kept == SelectSeq(starts, LAMBDA i : sub(i) # <<>>)
    IN  [j \in 1..Len(kept) |-> sub(kept[j])]

----------------------------------------------------------------------------
(* split_course_markdown.  A returned chunk is [t, fb]: t is the chunk's   *)
(* text, fb records whether split_large_chunk produced it.                 *)

Plain(seq) == [j \in 1..Len(seq) |-> [t |-> seq[j], fb |-> FALSE]]
Fallback(seq) == [j \in 1..Len(seq) |-> [t |-> seq[j], fb |-> TRUE]]

\* lines 38-43 and 49-54: close the accumulator `current`
CloseChunk(out, current) ==
    IF current = <<>> THEN out
    ELSE LET chunk == Join(current, PB)
         IN  IF Tokens(chunk) > HardCeiling
             THEN out \o Fallback(split_large_chunk(chunk))
             ELSE out \o Plain(<<chunk>>)

\* the paragraph loop with `current = []` at line 44: the paragraph that
\* does not fit is lost
RECURSIVE PackParas_DropsPara(_, _, _, _)
PackParas_DropsPara(paras, out, current, current_len) ==
    IF paras = <<>> THEN [out |-> out, current |-> current]
    ELSE LET para == Head(paras)
             tokens == Tokens(para)
         IN  IF current_len + tokens > CHUNK_SIZE
             THEN PackParas_DropsPara(Tail(paras), CloseChunk(out, current), <<>>, 0)
             ELSE PackParas_DropsPara(Tail(paras), out, Append(current, para),
                                      current_len + tokens)

\* lines 35-48: the loop over the paragraphs of one section
RECURSIVE PackParas(_, _, _, _)
PackParas(paras, out, current, current_len) ==
    IF paras = <<>> THEN [out |-> out, current |-> current]
    ELSE LET para == Head(paras)
             tokens == Tokens(para)
         IN  IF current_len + tokens > CHUNK_SIZE
             THEN PackParas(Tail(paras), CloseChunk(out, current), <<para>>, tokens)
             ELSE PackParas(Tail(paras), out, Append(current, para), current_len + tokens)

\* lines 32-54: the loop over the sections
RECURSIVE PackSections(_, _)
PackSections(sections, out) ==
    IF sections = <<>> THEN out
    ELSE LET paras == SplitOn(Strip(Head(sections)), "pb")
             packed == PackParas(paras, out, <<>>, 0)
         IN  PackSections(Tail(sections), CloseChunk(packed.out, packed.current))

split_course_markdown(text) ==
    PackSections(SplitOn(text, "hm"), <<>>)

----------------------------------------------------------------------------
(* chunk_discourse_file *)

\* re.match(r"(.*?)\*\* posted on (.*?):\n\n", post)
HeaderMatch(post) ==
    Len(post) >= 2 /\ post[1].k = "hdr" /\ post[2].k = "pb"

DiscourseChunk(post) ==
    IF HeaderMatch(post)
    THEN LET meta == SubSeq(post, 1, 2)
             body == Strip(SubSeq(post, 3, Len(post)))
         IN  meta \o body
    ELSE post

RECURSIVE DiscoursePosts(_, _)
DiscoursePosts(post_blocks, out) ==
    IF post_blocks = <<>> THEN out
    ELSE LET post == Strip(Head(post_blocks))
         IN  IF post = <<>>
             THEN DiscoursePosts(Tail(post_blocks), out)
             ELSE DiscoursePosts(Tail(post_blocks), Append(out, DiscourseChunk(post)))

chunk_discourse_file(text) ==
    Plain(DiscoursePosts(SplitOn(text, "delim"), <<>>))

----------------------------------------------------------------------------
(* Inputs of the chunkers *)

SeqsUpTo(S, n) == UNION {[1..m -> S] : m \in 0..n}

\* A course file is a sequence of units separated by blank lines: a
\* heading line of one token, or a paragraph of one word with the given
\* tokens (two short ones fit CHUNK_SIZE together, the others exceed
\* CHUNK_SIZE and HardCeiling alone).
ParaTokens == {99, 201, 9000}
Heading == [h |-> TRUE, tok |-> 1]
Para(t) == [h |-> FALSE, tok |-> t]
Units == {Heading} \cup {Para(t) : t \in ParaTokens}

RenderUnit(u, i) == IF u.h THEN <<HM, Word(i, u.tok)>> ELSE <<Word(i, u.tok)>>

RenderCourse(units) ==
    Join([i \in 1..Len(units) |-> RenderUnit(units[i], i)], PB)

CourseTexts == {RenderCourse(u) : u \in SeqsUpTo(Units, MaxUnits)}

DiscItems == {"delim", "hdr", "pb", "w"}

RenderDiscItem(u, i) ==
    CASE u = "delim" -> DELIM
      [] u = "hdr" -> Hdr(i)
      [] u = "pb" -> PB
      [] OTHER -> Word(i, 1)

RenderDiscourse(units) == [i \in 1..Len(units) |-> RenderDiscItem(units[i], i)]

DiscourseTexts == {RenderDiscourse(u) : u \in SeqsUpTo(DiscItems, MaxDiscItems)}

\* n words of t tokens each
WordsText(n, t) == [i \in 1..n |-> Word(i, t)]

LargeTexts == {WordsText(n, 1) : n \in 0..MaxWords}

----------------------------------------------------------------------------
(* get_embedding.  A call is a frame of `stack`; pc is its position:       *)
(*   "head"   at the top of `for attempt in range(max_retries)`,           *)
(*   "remote" before client.embeddings.create,                             *)
(*   "subs"   in `for sub in subchunks`, before get_embedding(subs[idx]),  *)
(*   "wait"   waiting for get_embedding(subs[idx]) to return.              *)

None == [tag |-> "None"]
Pending == [tag |-> "pending"]
Vec(text) == [tag |-> "vec", of |-> text]
Pairs(seq) == [tag |-> "pairs", items |-> seq]

\* bool(value) for the values get_embedding returns
Truthy(r) == r.tag = "vec" \/ (r.tag = "pairs" /\ r.items # <<>>)

Frame(text) ==
    [text |-> text, attempt |-> 0, pc |-> "head",
     subs |-> <<>>, idx |-> 0, embeddings |-> <<>>]

Top == stack[Len(stack)]
Below == SubSeq(stack, 1, Len(stack) - 1)
SetTop(f) == stack' = Append(Below, f)

\* a return statement of the innermost call; lines 94-96 of its caller
Return(r) ==
    IF Len(stack) = 1
    THEN /\ stack' = <<>>
         /\ ret' = r
    ELSE LET parent == stack[Len(stack) - 1]
             sub == parent.subs[parent.idx]
             resumed == [parent EXCEPT
                            !.embeddings = IF Truthy(r)
                                           THEN Append(@, [sub |-> sub, emb |-> r])
                                           ELSE @,
                            !.idx = @ + 1,
                            !.pc = "subs"]
         IN  /\ stack' = Append(SubSeq(stack, 1, Len(stack) - 2), resumed)
             /\ ret' = ret

\* lines 105-107: the except clause (time.sleep only passes time)
Caught(f) == [f EXCEPT !.attempt = @ + 1, !.pc = "head"]

\* line 108
GiveUp ==
    /\ pc = "embedding"
    /\ stack # <<>>
    /\ Top.pc = "head"
    /\ Top.attempt >= max_retries
    /\ Return(None)
    /\ UNCHANGED remoteLog
    /\ UNCHANGED <<input, chunks, mainVars>>

\* lines 88-92 without the test of line 89
Measure_NoCeilingCheck ==
    /\ pc = "embedding"
    /\ stack # <<>>
    /\ Top.pc = "head"
    /\ Top.attempt < max_retries
    /\ SetTop([Top EXCEPT !.pc = "remote"])
    /\ UNCHANGED <<ret, remoteLog>>
    /\ UNCHANGED <<input, chunks, mainVars>>

\* lines 88-92
Measure ==
    /\ pc = "embedding"
    /\ stack # <<>>
    /\ Top.pc = "head"
    /\ Top.attempt < max_retries
    /\ IF Tokens(Top.text) > HardCeiling
       THEN SetTop([Top EXCEPT !.pc = "subs", !.embeddings = <<>>, !.idx = 1,
                               !.subs = split_large_chunk(Top.text)])
       ELSE SetTop([Top EXCEPT !.pc = "remote"])
    /\ UNCHANGED <<ret, remoteLog>>
    /\ UNCHANGED <<input, chunks, mainVars>>

\* lines 99-104 without the return: the loop goes on to the next attempt
RemoteOk_NoReturn ==
    /\ pc = "embedding"
    /\ stack # <<>>
    /\ Top.pc = "remote"
    /\ remoteLog' = Append(remoteLog, [text |-> Top.text, ok |-> TRUE])
    /\ SetTop(Caught(Top))
    /\ UNCHANGED ret
    /\ UNCHANGED <<input, chunks, mainVars>>

\* lines 99-104
RemoteOk ==
    /\ pc = "embedding"
    /\ stack # <<>>
    /\ Top.pc = "remote"
    /\ remoteLog' = Append(remoteLog, [text |-> Top.text, ok |-> TRUE])
    /\ Return(Vec(Top.text))
    /\ UNCHANGED <<input, chunks, mainVars>>

\* lines 99-103 raising, then 105-107
RemoteFail ==
    /\ pc = "embedding"
    /\ stack # <<>>
    /\ Top.pc = "remote"
    /\ remoteLog' = Append(remoteLog, [text |-> Top.text, ok |-> FALSE])
    /\ SetTop(Caught(Top))
    /\ UNCHANGED ret
    /\ UNCHANGED <<input, chunks, mainVars>>

\* line 94
CallSub ==
    /\ pc = "embedding"
    /\ stack # <<>>
    /\ Top.pc = "subs"
    /\ Top.idx <= Len(Top.subs)
    /\ Len(stack) < RecursionLimit
    /\ stack' = Append(Append(Below, [Top EXCEPT !.pc = "wait"]),
                       Frame(Top.subs[Top.idx]))
    /\ UNCHANGED <<ret, remoteLog>>
    /\ UNCHANGED <<input, chunks, mainVars>>

\* line 94 at the interpreter's recursion limit: RecursionError, an
\* Exception, caught by lines 105-107 of the calling frame
RecursionError ==
    /\ pc = "embedding"
    /\ stack # <<>>
    /\ Top.pc = "subs"
    /\ Top.idx <= Len(Top.subs)
    /\ Len(stack) >= RecursionLimit
    /\ SetTop(Caught(Top))
    /\ UNCHANGED <<ret, remoteLog>>
    /\ UNCHANGED <<input, chunks, mainVars>>

\* line 97
SubsDone ==
    /\ pc = "embedding"
    /\ stack # <<>>
    /\ Top.pc = "subs"
    /\ Top.idx > Len(Top.subs)
    /\ Return(IF Top.embeddings # <<>> THEN Pairs(Top.embeddings) ELSE None)
    /\ UNCHANGED remoteLog
    /\ UNCHANGED <<input, chunks, mainVars>>

----------------------------------------------------------------------------
(* extract_slug_id.  A file name is a sequence of characters.              *)

Digits == {"0", "1", "2", "3", "4", "5", "6", "7", "8", "9"}

\* how many leading characters of s satisfy the class: a greedy \d+ or [^.]+
RECURSIVE LeadingDigits(_)
LeadingDigits(s) ==
    IF s # <<>> /\ Head(s) \in Digits THEN 1 + LeadingDigits(Tail(s)) ELSE 0

RECURSIVE LeadingNonDots(_)
LeadingNonDots(s) ==
    IF s # <<>> /\ Head(s) # "." THEN 1 + LeadingNonDots(Tail(s)) ELSE 0

NoMatch == [slug |-> <<>>, topic_id |-> <<>>]

\* re.match(r"(\d+)_([^.]+)\.md", filename)
extract_slug_id(filename) ==
    LET d == LeadingDigits(filename)
        rest == SubSeq(filename, d + 2, Len(filename))
        n == LeadingNonDots(rest)
        tail == SubSeq(rest, n + 1, Len(rest))
    IN  IF /\ d >= 1
           /\ Len(filename) > d
           /\ filename[d + 1] = "_"
           /\ n >= 1
           /\ Len(tail) >= 3
           /\ SubSeq(tail, 1, 3) = <<".", "m", "d">>
        THEN [slug |-> SubSeq(rest, 1, n), topic_id |-> SubSeq(filename, 1, d)]
        ELSE NoMatch

----------------------------------------------------------------------------
(* The main loop.  pc:                                                     *)
(*   "loop"      at `for file_path in files`,                              *)
(*   "chunk"     at `for i, chunk in enumerate(chunks)`,                   *)
(*   "embedding" inside get_embedding(chunk),                              *)
(*   "saved"     after np.savez_compressed,                                *)
(*   "crashed"   ended by an exception nothing catches.                    *)

File == files[fileIdx]
Chunk == chunks[chunkIdx].t

PreviewLen == 200

\* chunk[:200].replace("\n", " "), at the granularity of items
Preview(text) ==
    LET cut == SubSeq(text, 1, Min(PreviewLen, Len(text)))
    IN  [j \in 1..Len(cut) |->
            IF cut[j].k = "pb" THEN [cut[j] EXCEPT !.k = "sp"] ELSE cut[j]]

DiscourseUrl(slug, topic_id, i) ==
    [base |-> "https://discourse.onlinedegree.iitm.ac.in/t",
     slug |-> slug, topic_id |-> topic_id, i |-> i]

\* lines 144-152 and 157-165
Meta(file, chunk_id, text, i) ==
    LET m == extract_slug_id(file.name)
    IN  IF file.folder = "tds_discourse_md" /\ m.slug # <<>> /\ m.topic_id # <<>>
        THEN [filename |-> <<file.folder, file.name>>, chunk_id |-> chunk_id,
              text |-> Preview(text), url |-> DiscourseUrl(m.slug, m.topic_id, i)]
        ELSE [filename |-> <<file.folder, file.name>>, chunk_id |-> chunk_id,
              text |-> Preview(text)]

\* lines 131-137
ReadFile ==
    /\ pc = "loop"
    /\ fileIdx <= Len(files)
    /\ File.readable
    /\ chunks' = IF File.folder = "tds_markdown"
                 THEN split_course_markdown(File.text)
                 ELSE chunk_discourse_file(File.text)
    /\ chunkIdx' = 1
    /\ pc' = "chunk"
    /\ UNCHANGED <<input, embedVars, files, fileIdx, all_chunks, all_embeddings,
                   metas, history>>

\* lines 131-132 raising OSError or UnicodeDecodeError: nothing catches it
ReadFileError ==
    /\ pc = "loop"
    /\ fileIdx <= Len(files)
    /\ ~File.readable
    /\ pc' = "crashed"
    /\ UNCHANGED <<input, chunks, embedVars, files, fileIdx, chunkIdx, all_chunks,
                   all_embeddings, metas, history>>

\* line 140: the call
CallGetEmbedding ==
    /\ pc = "chunk"
    /\ chunkIdx <= Len(chunks)
    /\ stack' = <<Frame(Chunk)>>
    /\ ret' = Pending
    /\ remoteLog' = <<>>
    /\ pc' = "embedding"
    /\ UNCHANGED <<input, chunks, files, fileIdx, chunkIdx, all_chunks,
                   all_embeddings, metas, history>>

\* lines 143-155: the records of a list of (subchunk, emb) pairs
PairChunks(pairs) == [j \in 1..Len(pairs) |-> pairs[j].sub]
PairEmbeddings(pairs) == [j \in 1..Len(pairs) |-> pairs[j].emb]
PairMetas(pairs, file, i) ==
    [j \in 1..Len(pairs) |-> Meta(file, <<i, j - 1>>, pairs[j].sub, i)]

\* lines 140-168 without the test of line 141: a None is recorded too
Accumulate_KeepsNone ==
    /\ pc = "embedding"
    /\ stack = <<>>
    /\ ret # Pending
    /\ all_chunks' = Append(all_chunks, Chunk)
    /\ all_embeddings' = Append(all_embeddings, ret)
    /\ metas' = Append(metas, Meta(File, <<chunkIdx - 1>>, Chunk, chunkIdx - 1))
    /\ history' = Append(history, [file |-> fileIdx, i |-> chunkIdx - 1,
                                   chunk |-> Chunk, result |-> ret])
    /\ chunkIdx' = chunkIdx + 1
    /\ pc' = "chunk"
    /\ UNCHANGED <<input, chunks, embedVars, files, fileIdx>>

\* lines 140-168: the call's return and the records appended for it
Accumulate ==
    /\ pc = "embedding"
    /\ stack = <<>>
    /\ ret # Pending
    /\ LET i == chunkIdx - 1
       IN  IF ~Truthy(ret)
           THEN UNCHANGED <<all_chunks, all_embeddings, metas>>
           ELSE IF ret.tag = "pairs"
                THEN /\ all_chunks' = all_chunks \o PairChunks(ret.items)
                     /\ all_embeddings' = all_embeddings \o PairEmbeddings(ret.items)
                     /\ metas' = metas \o PairMetas(ret.items, File, i)
                ELSE /\ all_chunks' = Append(all_chunks, Chunk)
                     /\ all_embeddings' = Append(all_embeddings, ret)
                     /\ metas' = Append(metas, Meta(File, <<i>>, Chunk, i))
    /\ history' = Append(history, [file |-> fileIdx, i |-> chunkIdx - 1,
                                   chunk |-> Chunk, result |-> ret])
    /\ chunkIdx' = chunkIdx + 1
    /\ pc' = "chunk"
    /\ UNCHANGED <<input, chunks, embedVars, files, fileIdx>>

\* line 139 exhausted: back to line 130
NextFile ==
    /\ pc = "chunk"
    /\ chunkIdx > Len(chunks)
    /\ fileIdx' = fileIdx + 1
    /\ pc' = "loop"
    /\ UNCHANGED <<input, chunks, embedVars, files, chunkIdx, all_chunks,
                   all_embeddings, metas, history>>

\* lines 170-171
Save ==
    /\ pc = "loop"
    /\ fileIdx > Len(files)
    /\ pc' = "saved"
    /\ UNCHANGED <<input, chunks, embedVars, files, fileIdx, chunkIdx, all_chunks,
                   all_embeddings, metas, history>>

----------------------------------------------------------------------------
(* Specification of the chunkers: each is applied to an input of its kind. *)

ChunkInputs ==
    {[fn |-> "split_course_markdown", text |-> t] : t \in CourseTexts}
    \cup {[fn |-> "chunk_discourse_file", text |-> t] : t \in DiscourseTexts}
    \cup {[fn |-> "split_large_chunk", text |-> t] : t \in LargeTexts}

Idle ==
    /\ stack = <<>>
    /\ ret = Pending
    /\ remoteLog = <<>>
    /\ files = <<>>
    /\ fileIdx = 1
    /\ chunkIdx = 1
    /\ all_chunks = <<>>
    /\ all_embeddings = <<>>
    /\ metas = <<>>
    /\ history = <<>>

InitChunk ==
    /\ input \in ChunkInputs
    /\ chunks = <<>>
    /\ pc = "call"
    /\ Idle

CallSplitCourseMarkdown ==
    /\ pc = "call"
    /\ input.fn = "split_course_markdown"
    /\ chunks' = split_course_markdown(input.text)
    /\ pc' = "returned"
    /\ UNCHANGED <<input, embedVars, files, fileIdx, chunkIdx, all_chunks,
                   all_embeddings, metas, history>>

CallChunkDiscourseFile ==
    /\ pc = "call"
    /\ input.fn = "chunk_discourse_file"
    /\ chunks' = chunk_discourse_file(input.text)
    /\ pc' = "returned"
    /\ UNCHANGED <<input, embedVars, files, fileIdx, chunkIdx, all_chunks,
                   all_embeddings, metas, history>>

CallSplitLargeChunk ==
    /\ pc = "call"
    /\ input.fn = "split_large_chunk"
    /\ chunks' = Fallback(split_large_chunk(input.text))
    /\ pc' = "returned"
    /\ UNCHANGED <<input, embedVars, files, fileIdx, chunkIdx, all_chunks,
                   all_embeddings, metas, history>>

NextChunk ==
    \/ CallSplitCourseMarkdown
    \/ CallChunkDiscourseFile
    \/ CallSplitLargeChunk

SpecChunk == InitChunk /\ [][NextChunk]_vars

----------------------------------------------------------------------------
(* Specification of one get_embedding call on a text of n equal words.     *)

\* With 54 tokens a word, a text of more than 151 words is over the ceiling and
\* its sub-fragments are not; with 60, a sub-fragment of 137 words or more is
\* over it too; with 9000, every word is.
WordTokens == {1, 54, 60, 9000}

EmbedTexts == {WordsText(n, t) : n \in 0..MaxEmbedWords, t \in WordTokens}

InitEmbed ==
    /\ input \in {[fn |-> "get_embedding", text |-> t] : t \in EmbedTexts}
    /\ chunks = <<>>
    /\ stack = <<Frame(input.text)>>
    /\ ret = Pending
    /\ remoteLog = <<>>
    /\ files = <<>>
    /\ pc = "embedding"
    /\ fileIdx = 1
    /\ chunkIdx = 1
    /\ all_chunks = <<>>
    /\ all_embeddings = <<>>
    /\ metas = <<>>
    /\ history = <<>>

NextEmbed ==
    \/ GiveUp
    \/ Measure
    \/ RemoteOk
    \/ RemoteFail
    \/ CallSub
    \/ RecursionError
    \/ SubsDone

SpecEmbed == InitEmbed /\ [][NextEmbed]_vars

----------------------------------------------------------------------------
(* Specification of a run of the script over a corpus.                     *)

CourseName == <<"I", "_", "T", ".", "m", "d">>
TopicName == <<"4", "2", "_", "a", "-", "b", ".", "m", "d">>
OtherName == <<"a", ".", "m", "d">>

\* a post "---\n**<user>** posted on <date>:\n\n<body>" with a body of n words
Post(i, n, t) == <<DELIM, Hdr(i), PB>> \o WordsText(n, t)

FileRec(folder, name, readable, text) ==
    [folder |-> folder, name |-> name, readable |-> readable, text |-> text]

\* A course file of a heading and two paragraphs; a thread of two posts; a
\* thread whose post is over the ceiling and splits into two sub-fragments
\* under it; a thread whose post is one word over the ceiling; a file that
\* cannot be read (its text is never seen).
FileChoices ==
    {FileRec("tds_markdown", CourseName, TRUE,
             RenderCourse(<<Heading, Para(99), Para(99)>>)),
     FileRec("tds_discourse_md", TopicName, TRUE,
             Post(1, 1, 1) \o <<PB>> \o Post(2, 1, 1)),
     FileRec("tds_discourse_md", TopicName, TRUE, Post(1, 152, 54)),
     FileRec("tds_discourse_md", OtherName, TRUE, Post(1, 1, 9000)),
     FileRec("tds_markdown", CourseName, FALSE, <<>>)}

Init ==
    /\ input = [fn |-> "main", text |-> <<>>]
    /\ files \in SeqsUpTo(FileChoices, MaxFiles)
    /\ chunks = <<>>
    /\ stack = <<>>
    /\ ret = Pending
    /\ remoteLog = <<>>
    /\ pc = "loop"
    /\ fileIdx = 1
    /\ chunkIdx = 1
    /\ all_chunks = <<>>
    /\ all_embeddings = <<>>
    /\ metas = <<>>
    /\ history = <<>>

Next ==
    \/ ReadFile
    \/ ReadFileError
    \/ CallGetEmbedding
    \/ GiveUp
    \/ Measure
    \/ RemoteOk
    \/ RemoteFail
    \/ CallSub
    \/ RecursionError
    \/ SubsDone
    \/ Accumulate
    \/ NextFile
    \/ Save

Spec == Init /\ [][Next]_vars

----------------------------------------------------------------------------
(* Properties of the chunkers (SpecChunk) *)

Returned(fn) == pc = "returned" /\ input.fn = fn

RECURSIVE Flatten(_)
Flatten(seqs) == IF seqs = <<>> THEN <<>> ELSE Head(seqs) \o Flatten(Tail(seqs))

CeilDiv(a, b) == (a + b - 1) \div b

\* C1: every chunk of split_course_markdown that split_large_chunk did not
\* produce measures at most CHUNK_SIZE tokens, whatever the paragraphs' sizes.
C1_ChunkWithinLimit ==
    Returned("split_course_markdown") =>
        \A j \in 1..Len(chunks) :
            ~chunks[j].fb => Tokens(chunks[j].t) <= CHUNK_SIZE

\* C5 as stated: N words give ceil(N / (W - O)) sub-fragments, and exactly
\* one whenever 1 <= N <= W.
C5_Original ==
    Returned("split_large_chunk") =>
        LET N == Len(Words(input.text))
        IN  /\ Len(chunks) = CeilDiv(N, SUBCHUNK_TOKENS - OVERLAP)
            /\ (1 <= N /\ N <= SUBCHUNK_TOKENS => Len(chunks) = 1)

\* C5 as amended: N words give ceil(N / (W - O)) sub-fragments: exactly one
\* when 1 <= N <= W - O, and two when W - O < N <= W, the second one a
\* suffix of the first.
C5_FragmentCount ==
    Returned("split_large_chunk") =>
        LET N == Len(Words(input.text))
        IN  /\ Len(chunks) = CeilDiv(N, SUBCHUNK_TOKENS - OVERLAP)
            /\ (1 <= N /\ N <= SUBCHUNK_TOKENS - OVERLAP => Len(chunks) = 1)
            /\ (SUBCHUNK_TOKENS - OVERLAP < N /\ N <= SUBCHUNK_TOKENS =>
                    /\ Len(chunks) = 2
                    /\ chunks[1].t = Words(input.text)
                    /\ chunks[2].t = SubSeq(chunks[1].t, SUBCHUNK_TOKENS - OVERLAP + 1, N))

C5_Witness ==
    /\ Returned("split_large_chunk")
    /\ Len(Words(input.text)) = SUBCHUNK_TOKENS
    /\ Len(chunks) = 2

\* the paragraphs under one heading: the heading's title, then the rest
BlockParas(section) == SplitOn(Strip(section), "pb")

\* a file of two heading-delimited blocks, the first heading on the first
\* line, each heading followed by two paragraphs that fit CHUNK_SIZE together
TwoHeadingBlocks(text) ==
    LET sections == SplitOn(text, "hm")
    IN  /\ Len(sections) = 3
        /\ sections[1] = <<>>
        /\ \A b \in 2..3 :
              /\ Len(BlockParas(sections[b])) = 3
              /\ \A q \in 1..3 : BlockParas(sections[b])[q] # <<>>
              /\ Tokens(Flatten(BlockParas(sections[b]))) <= CHUNK_SIZE

\* C6: a course file of two heading blocks, each of two short paragraphs,
\* gives exactly 2 chunks.
C6_TwoChunksForTwoBlocks ==
    (Returned("split_course_markdown") /\ TwoHeadingBlocks(input.text)) =>
        Len(chunks) = 2

\* the paragraphs of a course text, section by section, and of its chunks
SourceParas(text) ==
    LET sections == SplitOn(text, "hm")
    IN  Flatten([b \in 1..Len(sections) |-> BlockParas(sections[b])])

ChunkParas(cs) == Flatten([j \in 1..Len(cs) |-> SplitOn(cs[j].t, "pb")])

\* the posts of a discourse text that are not empty once stripped
SourcePosts(text) ==
    SelectSeq([b \in 1..Len(SplitOn(text, "delim")) |->
                  Strip(SplitOn(text, "delim")[b])],
              LAMBDA post : post # <<>>)

NoFallback == \A j \in 1..Len(chunks) : ~chunks[j].fb

\* C7: where the fallback is not taken, the chunks of split_course_markdown
\* hold the document's paragraphs, each once and in source order, and the
\* chunks of chunk_discourse_file are the non-empty posts, one chunk a post,
\* in source order.
C7_ChunksPartitionSource ==
    /\ (Returned("split_course_markdown") /\ NoFallback) =>
            ChunkParas(chunks) = SourceParas(input.text)
    /\ Returned("chunk_discourse_file") =>
            /\ Len(chunks) = Len(SourcePosts(input.text))
            /\ \A j \in 1..Len(chunks) :
                    Words(chunks[j].t) = Words(SourcePosts(input.text)[j])

C7_Witness ==
    /\ Returned("split_course_markdown")
    /\ NoFallback
    /\ Len(chunks) >= 3
    /\ \E j \in 1..Len(chunks) : Len(SplitOn(chunks[j].t, "pb")) >= 2

----------------------------------------------------------------------------
(* Properties of get_embedding (SpecEmbed) *)

Returns == stack = <<>> /\ ret # Pending

\* C3: for a text within the ceiling, get_embedding calls the service at
\* least once and at most max_retries times, always with that text; a
\* successful call is the last one and its vector is returned at once; after
\* max_retries failures None is returned.
C3_BoundedRetries ==
    Tokens(input.text) <= HardCeiling =>
        /\ Len(remoteLog) <= max_retries
        /\ \A n \in 1..Len(remoteLog) :
              /\ remoteLog[n].text = input.text
              /\ remoteLog[n].ok => (n = Len(remoteLog) /\ ret = Vec(input.text))
        /\ Returns =>
              /\ Len(remoteLog) >= 1
              /\ \/ ret = Vec(input.text) /\ remoteLog[Len(remoteLog)].ok
                 \/ /\ ret = None
                    /\ Len(remoteLog) = max_retries
                    /\ \A n \in 1..Len(remoteLog) : ~remoteLog[n].ok

C3_Witness ==
    /\ input.fn = "get_embedding"
    /\ input.text # <<>>
    /\ Tokens(input.text) <= HardCeiling
    /\ Returns
    /\ ret = None
    /\ Len(remoteLog) = max_retries

\* C4: the service is never called with a text over the ceiling: a call
\* about to happen or made has a text within it, and a text over it is
\* replaced by the sub-fragments of split_large_chunk, each handed to a
\* get_embedding call of its own.
C4_NoOversizedRemoteCall ==
    /\ \A n \in 1..Len(remoteLog) : Tokens(remoteLog[n].text) <= HardCeiling
    /\ \A k \in 1..Len(stack) :
          /\ stack[k].pc = "remote" => Tokens(stack[k].text) <= HardCeiling
          /\ k < Len(stack) =>
                /\ stack[k].pc = "wait"
                /\ Tokens(stack[k].text) > HardCeiling
                /\ stack[k].subs = split_large_chunk(stack[k].text)
                /\ stack[k + 1].text = stack[k].subs[stack[k].idx]

C4_Witness ==
    /\ input.fn = "get_embedding"
    /\ Tokens(input.text) > HardCeiling
    /\ Returns
    /\ ret.tag = "pairs"
    /\ \E n \in 1..Len(remoteLog) : remoteLog[n].ok /\ remoteLog[n].text # input.text

\* C10: on the oversized path every recursive call receives a sub-fragment
\* strictly smaller than its parent text, so that the recursion ends by itself.
C10_SubFragmentsShrink ==
    \A k \in 1..(Len(stack) - 1) :
        /\ Len(stack[k + 1].text) < Len(stack[k].text)
        /\ Tokens(stack[k + 1].text) < Tokens(stack[k].text)

----------------------------------------------------------------------------
(* Properties of the main loop (Spec) *)

NoneCount == Cardinality({n \in 1..Len(history) : history[n].result = None})

\* the records the chunk of history entry h stands for
RecordChunks(h) ==
    IF h.result.tag = "vec" THEN <<h.chunk>>
    ELSE IF h.result.tag = "pairs" THEN PairChunks(h.result.items)
         ELSE <<>>

RecordEmbeddings(h) ==
    IF h.result.tag = "vec" THEN <<h.result>>
    ELSE IF h.result.tag = "pairs" THEN PairEmbeddings(h.result.items)
         ELSE <<>>

RecordIds(h) ==
    IF h.result.tag = "vec" THEN <<[file |-> h.file, chunk_id |-> <<h.i>>]>>
    ELSE IF h.result.tag = "pairs"
         THEN [j \in 1..Len(h.result.items) |->
                  [file |-> h.file, chunk_id |-> <<h.i, j - 1>>]]
         ELSE <<>>

C8_UnreadableFileSkipped ==
    \A f \in 1..Len(files) :
        (f <= fileIdx /\ ~files[f].readable) => pc # "crashed"

\* slugify: lowercase, underscores and spaces to hyphens
SlugChar(c) ==
    CASE c = "_" -> "-"
      [] c = " " -> "-"
      [] c = "I" -> "i"
      [] c = "T" -> "t"
      [] OTHER -> c

Stem(name) == SubSeq(name, 1, Len(name) - 3)
Slugify(s) == [n \in 1..Len(s) |-> SlugChar(s[n])]
CourseUrl(name) == [base |-> "course-base", slug |-> Slugify(Stem(name))]

\* C9: every record of a course-note file carries the URL made of the
\* course base and the slugified file name stem, as the records of a
\* discourse file named <id>_<slug>.md carry <base>/t/<slug>/<id>/<i>.
C9_CourseRecordsCarryUrl ==
    \A n \in 1..Len(metas) :
        LET folder == metas[n].filename[1]
            name == metas[n].filename[2]
        IN  /\ folder = "tds_markdown" =>
                  /\ "url" \in DOMAIN metas[n]
                  /\ metas[n].url = CourseUrl(name)
            /\ (folder = "tds_discourse_md" /\ extract_slug_id(name) # NoMatch) =>
                  /\ "url" \in DOMAIN metas[n]
                  /\ metas[n].url = DiscourseUrl(extract_slug_id(name).slug,
                                                 extract_slug_id(name).topic_id,
                                                 metas[n].chunk_id[1])

====
